---- MODULE Spec2Model ----
(***************************************************************************)
(* Model of the two Streamlit tools of the repository:                     *)
(*   src/generating_ppt.py  the slide generator                            *)
(*   src/pqs_app.py         the quiz generator                             *)
(* Texts are sequences of Unicode code points.  Python's None is the       *)
(* one-element sequence None, whose element is no code point.              *)
(***************************************************************************)
EXTENDS Integers, Sequences, FiniteSets, TLC

\* ------------------------------------------------------------------ values

None == <<-1>>

\* Python truthiness of a str, a list or None.
Truthy(x) == x # None /\ x # <<>>

\* ------------------------------------------------------------------ bounds

\* Longest prefix and suffix put around the filler of a sanitizer input.
MaxAffix == 2
\* How far below the truncation limit the filler lengths start.
FillSpan == 2
\* Most pages of an uploaded PDF.
MaxPages == 3
\* Most questions in a reply of the model service.
MaxQuestions == 2

\* ------------------------------------------------------------------ strings

RECURSIVE FirstKeptIn(_, _, _, _)
\* Index of the first character of s[lo..hi] that is not in chars (hi + 1
\* when there is none), found by halving the range.
FirstKeptIn(s, lo, hi, chars) ==
    IF lo > hi THEN hi + 1
    ELSE IF lo = hi THEN (IF s[lo] \notin chars THEN lo ELSE hi + 1)
    ELSE LET mid == (lo + hi) \div 2
             left == FirstKeptIn(s, lo, mid, chars)
         IN  IF left <= mid THEN left ELSE FirstKeptIn(s, mid + 1, hi, chars)

RECURSIVE LastKeptIn(_, _, _, _)
\* Index of the last character of s[lo..hi] that is not in chars (lo - 1 when
\* there is none).
LastKeptIn(s, lo, hi, chars) ==
    IF lo > hi THEN lo - 1
    ELSE IF lo = hi THEN (IF s[lo] \notin chars THEN lo ELSE lo - 1)
    ELSE LET mid == (lo + hi) \div 2
             right == LastKeptIn(s, mid + 1, hi, chars)
         IN  IF right > mid THEN right ELSE LastKeptIn(s, lo, mid, chars)

\* str.strip(chars): drop the leading and the trailing characters in chars.
Strip(s, chars) ==
    SubSeq(s, FirstKeptIn(s, 1, Len(s), chars), LastKeptIn(s, 1, Len(s), chars))

\* s[:n]
Prefix(s, n) == SubSeq(s, 1, IF Len(s) < n THEN Len(s) ELSE n)

\* The characters str.strip() without arguments removes.
Whitespace == (9..13) \cup (28..32) \cup {133, 160}

\* c repeated n times.
Repeat(c, n) == [i \in 1..n |-> c]

\* All sequences over S of length at most n.
SeqsUpTo(S, n) == UNION {[1..k -> S] : k \in 0..n}

\* ------------------------------------------------------------------ sanitize_text

\* [\x00-\x1F\x7F-\x9F]
ControlChars == (0..31) \cup (127..159)

\* The argument of strip: a-circumflex, euro sign, cent sign, '-', '*', ' '.
BulletChars == {226, 8364, 162, 45, 42, 32}

\* text[:500]
MaxTextLen == 500

RemoveControl(text) == SelectSeq(text, LAMBDA c : c \notin ControlChars)

StripBullets(text) == Strip(text, BulletChars)

Truncate(text) == Prefix(text, MaxTextLen)

sanitize_text(text) == Truncate(StripBullets(RemoveControl(text)))

\* ------------------------------------------------------------------ extract_text_from_file

\* What page.extract_text() may give for one page: None, no text, or text
\* with or without surrounding whitespace.
PageResults == {None, <<>>, <<97>>, <<32, 97>>, <<97, 10>>}

\* The decoded contents of an uploaded .txt or .md file.
FileContents == SeqsUpTo({32, 97}, 2)

\* An uploaded file: the extension of its name, the pages PdfReader finds in
\* it (a PDF) and its decoded bytes (a text file).
PdfFiles == [ext : {"pdf"}, pages : SeqsUpTo(PageResults, MaxPages), content : {<<>>}]
TextFiles == [ext : {"txt", "md"}, pages : {<<>>}, content : FileContents]
OtherFiles == [ext : {"docx"}, pages : {<<>>}, content : {<<>>}]
Files == PdfFiles \cup TextFiles \cup OtherFiles

\* page.extract_text() or ""
PageText(page) == IF page = None THEN <<>> ELSE page

RECURSIVE JoinPages(_, _)
\* sep.join(page.extract_text() or "" for page in pages)
JoinPages(pages, sep) ==
    IF pages = <<>> THEN <<>>
    ELSE IF Len(pages) = 1 THEN PageText(pages[1])
    ELSE PageText(pages[1]) \o sep \o JoinPages(Tail(pages), sep)

RECURSIVE Gcd(_, _)
Gcd(a, b) == IF b = 0 THEN a ELSE Gcd(b, a % b)

\* A progress value (i + 1) / total_pages, kept as <<numerator, denominator>>
\* in lowest terms, so that 2 / 2 and 1.0 are one value.
Progress(num, den) == <<num \div Gcd(num, den), den \div Gcd(num, den)>>
ProgressZero == Progress(0, 1)
ProgressOne == Progress(1, 1)
ProgressLess(p, q) == p[1] * q[2] < q[1] * p[2]
ProgressComplete(p) == p[1] = p[2]

\* The arguments progress_callback is called with, in order.
pqs_progress_calls(file) ==
    IF file.ext = "pdf"
    THEN [i \in 1..Len(file.pages) |-> Progress(i, Len(file.pages))]
    ELSE IF file.ext \in {"txt", "md"} THEN <<ProgressOne>>
    ELSE <<>>

\* extract_text_from_file of pqs_app.py: the text returned (None: unsupported).
pqs_extract_text_from_file(file) ==
    IF file.ext = "pdf" THEN Strip(JoinPages(file.pages, <<>>), Whitespace)
    ELSE IF file.ext \in {"txt", "md"} THEN file.content
    ELSE None

\* extract_text_from_file of generating_ppt.py.
ppt_extract_text_from_file(file) ==
    IF file.ext = "pdf" THEN Strip(JoinPages(file.pages, <<32>>), Whitespace)
    ELSE IF file.ext \in {"txt", "md"} THEN Strip(file.content, Whitespace)
    ELSE None

\* Both report "Unsupported file format" for any other extension.
UnsupportedFormat(file) == file.ext \notin {"pdf", "txt", "md"}

\* ------------------------------------------------------------------ st.cache_data

\* A list that may be None: fetch_ppt_content's result, session_state.questions.
NoneList == [isnone |-> TRUE, items |-> <<>>]
ListOf(items) == [isnone |-> FALSE, items |-> items]
TruthyList(l) == ~l.isnone /\ l.items # <<>>

\* The key st.cache_data files a call under: the values of its arguments.
CacheKey(text_content, param) == [text |-> text_content, param |-> param]

\* cache_data without the store: every call executes the body.
cache_data_uncached(cache, key, run) ==
    [cache |-> cache, invoked |-> TRUE, raised |-> run.raised,
     value |-> run.value, error |-> run.error]

\* @st.cache_data around a function body.  run is what the body does when it
\* is executed: [raised, value, error].  A call whose key is cached returns the
\* stored value and replays the stored st.error without executing the body; an
\* executed body that returns is stored, one that raises is not.
cache_data(cache, key, run) ==
    IF key \in DOMAIN cache
    THEN [cache |-> cache, invoked |-> FALSE, raised |-> FALSE,
          value |-> cache[key].value, error |-> cache[key].error]
    ELSE IF run.raised
    THEN [cache |-> cache, invoked |-> TRUE, raised |-> TRUE,
          value |-> run.value, error |-> run.error]
    ELSE [cache |-> (key :> [value |-> run.value, error |-> run.error]) @@ cache,
          invoked |-> TRUE, raised |-> FALSE,
          value |-> run.value, error |-> run.error]

\* The requester call a run made, as call-count instrumentation sees it.
\* What the model service did in a call: the kind of its reply, whether the
\* JSON object had the expected key, and how many items the list under it had.
ReplyDigest(reply) == [kind |-> reply.kind, haskey |-> reply.haskey, count |-> Len(reply.items)]
Unused == [kind |-> "unused", haskey |-> FALSE, count |-> 0]

\* The requester call a run made, as call-count instrumentation sees it:
\* the function and its cache key, whether the model service was invoked,
\* whether the call raised, the value it returned and the service's reply.
NoCall == [made |-> FALSE, fn |-> "none", key |-> CacheKey(<<>>, 0),
           invoked |-> FALSE, raised |-> FALSE, value |-> <<>>, reply |-> Unused]
CallOf(fn, key, r, reply) ==
    [made |-> TRUE, fn |-> fn, key |-> key, invoked |-> r.invoked,
     raised |-> r.raised, value |-> r.value,
     reply |-> IF r.invoked THEN ReplyDigest(reply) ELSE Unused]

\* ------------------------------------------------------------------ fetch_questions

Letters == {"a", "b", "c", "d"}

QuizLevels == {"easy", "medium", "hard"}

\* Option texts "A".."D" and question texts "Q1".."Q3".
OptA == <<65>>
OptB == <<66>>
OptC == <<67>>
OptD == <<68>>

DistinctOptions == [l \in Letters |->
    CASE l = "a" -> OptA [] l = "b" -> OptB [] l = "c" -> OptC [] OTHER -> OptD]
\* Two letters carry the same text.
RepeatedOptions == [l \in Letters |->
    CASE l = "a" -> OptA [] l = "b" -> OptA [] l = "c" -> OptB [] OTHER -> OptC]

McqFirst == [mcq |-> <<81, 49>>, options |-> DistinctOptions, correct |-> "b"]
\* The same question with another letter given as correct.
McqFirstAlt == [mcq |-> <<81, 49>>, options |-> DistinctOptions, correct |-> "c"]
McqRepeated == [mcq |-> <<81, 50>>, options |-> RepeatedOptions, correct |-> "a"]
\* correct is not a key of options.
McqBadLetter == [mcq |-> <<81, 51>>, options |-> DistinctOptions, correct |-> "e"]

\* The "mcqs" lists the model service is taken to answer with: the first
\* questions, up to MaxQuestions, of two quizzes.
McqQuizzes == {<<McqFirst, McqRepeated, McqFirstAlt, McqRepeated>>,
               <<McqFirstAlt, McqBadLetter, McqFirst, McqRepeated>>}
McqLists == {SubSeq(quiz, 1, n) : quiz \in McqQuizzes, n \in 0..MaxQuestions}

\* What ollama.chat does: raise, or return content that is not JSON, JSON that
\* is no object, or a JSON object with or without the "mcqs" key.
QuizReplies ==
    [kind : {"raise", "garbage", "nonobject"}, haskey : {FALSE}, items : {<<>>}]
    \cup [kind : {"object"}, haskey : {FALSE}, items : {<<>>}]
    \cup [kind : {"object"}, haskey : {TRUE}, items : McqLists]

\* The parse failure left uncaught.
questions_parse_uncaught == [raised |-> TRUE, value |-> <<>>, error |-> FALSE]

\* except json.JSONDecodeError: st.error(...); return []
questions_parse_failed == [raised |-> FALSE, value |-> <<>>, error |-> TRUE]

\* The body of fetch_questions on the service's reply.
fetch_questions_body(reply) ==
    CASE reply.kind = "raise" -> [raised |-> TRUE, value |-> <<>>, error |-> FALSE]
      [] reply.kind = "garbage" -> questions_parse_failed
      [] reply.kind = "nonobject" -> [raised |-> TRUE, value |-> <<>>, error |-> FALSE]
      [] OTHER -> [raised |-> FALSE,
                   value |-> IF reply.haskey THEN reply.items ELSE <<>>,
                   error |-> FALSE]

fetch_questions(cache, text_content, quiz_level, reply) ==
    cache_data(cache, CacheKey(text_content, quiz_level), fetch_questions_body(reply))

\* ------------------------------------------------------------------ pqs_app.py main

\* st.session_state before the first run sets anything: questions,
\* selected_options and correct_answers do not exist yet (nothing reads the
\* last two before Generate has set them) and quiz_level is unset.
AbsentList == [isnone |-> FALSE, items |-> <<>>, absent |-> TRUE]
PresentList(l) == [isnone |-> l.isnone, items |-> l.items, absent |-> FALSE]

InitialSession ==
    [processed_text |-> None, quiz_generated |-> FALSE,
     processing_progress |-> ProgressZero, questions |-> AbsentList,
     selected_options |-> <<>>, correct_answers |-> <<>>, quiz_level |-> "unset"]

\* What one run of the script put on the page.
\*   questions  the questions whose radios (and the Submit button) are shown
\*   score      <<marks, total>> when a result was displayed, else None
\*   error      fetch_questions reported "Failed to parse response"
\*   fault      the exception that ended the run, "none" when it completed
BlankScreen == [questions |-> <<>>, score |-> None, error |-> FALSE, fault |-> "none"]

\* A run in progress: the session state, the cache, the page and whether an
\* uncaught exception has stopped the script.
RunState(ss, cache, call, page) == [ss |-> ss, cache |-> cache, call |-> call, page |-> page]
Halted(run) == run.page.fault # "none"

\* st.session_state.get('quiz_level', 'easy')
LevelOrDefault(ss) == IF ss.quiz_level = "unset" THEN "easy" ELSE ss.quiz_level

\* Generate keeping the cached correct-answer snapshot.
LoadQuestions_keep_answers(ss, questions) ==
    [ss EXCEPT !.questions = PresentList(ListOf(questions)),
               !.quiz_generated = TRUE,
               !.selected_options = [i \in 1..Len(questions) |-> None]]

\* Lines 112-115: the state Generate leaves once fetch_questions has returned.
LoadQuestions(ss, questions) ==
    [ss EXCEPT !.questions = PresentList(ListOf(questions)),
               !.quiz_generated = TRUE,
               !.selected_options = [i \in 1..Len(questions) |-> None],
               !.correct_answers = <<>>]

\* Lines 94-117: the "Generate Quiz" button was pressed.
GenerateClicked(run, file, reply) ==
    LET calls == pqs_progress_calls(file)
        processed == pqs_extract_text_from_file(file)
        ss1 == [run.ss EXCEPT !.quiz_generated = FALSE,
                              !.processing_progress =
                                  IF calls = <<>> THEN ProgressZero ELSE calls[Len(calls)],
                              !.processed_text = processed]
        key == CacheKey(processed, LevelOrDefault(run.ss))
        r == fetch_questions(run.cache, processed, LevelOrDefault(run.ss), reply)
    IN  IF ~Truthy(processed) THEN [run EXCEPT !.ss = ss1]
        ELSE IF r.raised
        THEN [run EXCEPT !.ss = ss1, !.cache = r.cache,
                         !.call = CallOf("fetch_questions", key, r, reply),
                         !.page.fault = IF reply.kind = "raise" THEN "ServiceError"
                                        ELSE "AttributeError"]
        ELSE [run EXCEPT !.ss = LoadQuestions(ss1, r.value), !.cache = r.cache,
                         !.call = CallOf("fetch_questions", key, r, reply),
                         !.page.error = r.error]

\* Line 127: the selectbox value is stored on every run that has a file.
StoreLevel(run, level) ==
    IF Halted(run) THEN run ELSE [run EXCEPT !.ss.quiz_level = level]

\* q["options"][q["correct"]] raises KeyError for a letter that is no key.
HasCorrectKey(q) == q.correct \in DOMAIN q.options
CorrectText(q) == q.options[q.correct]

\* Lines 134-137: the snapshot is computed when the cached one is empty.
answers_snapshot(ss, questions) ==
    IF ss.correct_answers = <<>>
    THEN [i \in 1..Len(questions) |-> CorrectText(questions[i])]
    ELSE ss.correct_answers

\* list(question["options"].values())
OptionTexts(q) == {q.options[l] : l \in DOMAIN q.options}

\* The radios drawn without a default index.
radio_value_no_default(ss, questions, i, pick) ==
    IF pick # <<>> /\ pick[1] = i THEN pick[2] ELSE None

\* Lines 144-157: what st.radio returns for question i.  pick is the user's
\* event of this run, <<i, text>>, or <<>>; without one the radio shows the
\* option at default_index, which is that of the slot's current value.
radio_value(ss, questions, i, pick) ==
    IF pick # <<>> /\ pick[1] = i THEN pick[2]
    ELSE IF Truthy(ss.selected_options[i])
            /\ ss.selected_options[i] \in OptionTexts(questions[i])
    THEN ss.selected_options[i]
    ELSE None

\* Lines 130-157: the quiz is displayed.
Render(run, pick) ==
    LET ss == run.ss
        questions == ss.questions.items
    IN  IF Halted(run) \/ ~ss.quiz_generated \/ ss.questions.absent
           \/ ~TruthyList(ss.questions)
        THEN run
        ELSE IF ss.correct_answers = <<>> /\ \E i \in 1..Len(questions) : ~HasCorrectKey(questions[i])
        THEN [run EXCEPT !.page.fault = "KeyError"]
        ELSE [run EXCEPT
                !.ss.correct_answers = answers_snapshot(ss, questions),
                !.ss.selected_options =
                    [i \in 1..Len(questions) |-> radio_value(ss, questions, i, pick)],
                !.page.questions = questions]

Min(a, b) == IF a < b THEN a ELSE b

\* sum(1 for sel, cor in zip(selected_options, correct_answers) if sel == cor)
marks_of(selected_options, correct_answers) ==
    Cardinality({i \in 1..Min(Len(selected_options), Len(correct_answers)) :
                    selected_options[i] = correct_answers[i]})

\* The reset leaving quiz_generated set.
reset_session_keeps_flag(ss) ==
    [ss EXCEPT !.processed_text = None, !.questions = PresentList(NoneList)]

\* Lines 169-172.
reset_session(ss) ==
    [ss EXCEPT !.quiz_generated = FALSE, !.processed_text = None,
               !.questions = PresentList(NoneList)]

\* Lines 160-172: the Submit button, which exists only in a run that displayed
\* the quiz, was pressed.
SubmitClicked(run) ==
    IF Halted(run) \/ run.page.questions = <<>> THEN run
    ELSE [run EXCEPT
            !.page.score = <<marks_of(run.ss.selected_options, run.ss.correct_answers),
                             Len(run.ss.questions.items)>>,
            !.ss = reset_session(run.ss)]

\* ------------------------------------------------------------------ fetch_ppt_content

\* st.number_input(min_value=1, max_value=20, value=5)
MinSlideCount == 1
MaxSlideCount == 20
DefaultSlideCount == 5

\* The largest slide count the user is taken to enter besides the default.
MaxCountTried == 2

SlideCountsTried == (MinSlideCount..MaxCountTried) \cup {DefaultSlideCount}

\* A slide as the model writes it: "* T" with a line feed, and one "- x" bullet.
SlideRecord == [title |-> <<42, 32, 84, 10>>, content |-> <<<<45, 32, 120>>>>]

\* The reply's "slides" lists: every length from none to one more than any
\* count asked for.
SlideLists == {[i \in 1..k |-> SlideRecord] : k \in 0..(DefaultSlideCount + 1)}

PptReplies ==
    [kind : {"raise", "garbage", "nonobject"}, haskey : {FALSE}, items : {<<>>}]
    \cup [kind : {"object"}, haskey : {FALSE}, items : {<<>>}]
    \cup [kind : {"object"}, haskey : {TRUE}, items : SlideLists]

\* The comparison rejecting only a reply with too few slides.
count_mismatch_fewer(slides, slide_count) == Len(slides) < slide_count

\* len(content["slides"]) != slide_count
count_mismatch(slides, slide_count) == Len(slides) # slide_count

\* The body of fetch_ppt_content on the service's reply.  Everything json.loads
\* and the two subscripts raise is caught and reported; ollama.chat is called
\* outside the try.
fetch_ppt_content_body(reply, slide_count) ==
    CASE reply.kind = "raise" -> [raised |-> TRUE, value |-> NoneList, error |-> "none"]
      [] reply.kind \in {"garbage", "nonobject"} \/ ~reply.haskey ->
            [raised |-> FALSE, value |-> NoneList, error |-> "parse"]
      [] count_mismatch(reply.items, slide_count) ->
            [raised |-> FALSE, value |-> NoneList, error |-> "count"]
      [] OTHER -> [raised |-> FALSE, value |-> ListOf(reply.items), error |-> "none"]

fetch_ppt_content(cache, text_content, slide_count, reply) ==
    cache_data(cache, CacheKey(text_content, slide_count),
               fetch_ppt_content_body(reply, slide_count))

\* ------------------------------------------------------------------ create_ppt_from_template

\* The template: one python-pptx cannot open or that has no first slide
\* ("broken"), or one whose first slide gives a background colour or none.
Templates ==
    [kind : {"broken"}, rgb : {None}]
    \cup [kind : {"ok"}, rgb : {None, <<0, 0, 0>>, <<127, 127, 127>>,
                                <<128, 127, 127>>, <<255, 255, 255>>}]

NoTemplate == [kind |-> "none", rgb |-> None]

\* sum(background_color) < 382
LuminanceThreshold == 382

\* RGBColor(255, 255, 255) if background_color and sum(background_color) < 382
text_color(rgb) ==
    IF rgb # None /\ rgb[1] + rgb[2] + rgb[3] < LuminanceThreshold
    THEN <<255, 255, 255>> ELSE <<0, 0, 0>>

\* One output slide per slide record.
BuildSlide(slide_data, rgb) ==
    [title |-> sanitize_text(slide_data.title),
     points |-> [j \in 1..Len(slide_data.content) |-> sanitize_text(slide_data.content[j])],
     color |-> text_color(rgb)]

create_ppt_from_template(slides_data, template) ==
    IF template.kind = "broken" THEN [raised |-> TRUE, deck |-> <<>>]
    ELSE [raised |-> FALSE,
          deck |-> [i \in 1..Len(slides_data) |-> BuildSlide(slides_data[i], template.rgb)]]

\* ------------------------------------------------------------------ generating_ppt.py main

\* What one run of the slide tool displayed: the error reported, whether the
\* download button is offered and the deck behind it, and the uncaught
\* exception that ended the run.
BlankPptScreen == [download |-> FALSE, deck |-> <<>>, error |-> "none", fault |-> "none"]

\* Lines 147-171: "Generate Presentation" was pressed.  One result record:
\* the page, the cache and the requester call made.
PresentationClicked(cache, file, template, slide_count, reply) ==
    LET text_content == ppt_extract_text_from_file(file)
        key == CacheKey(text_content, slide_count)
        r == fetch_ppt_content(cache, text_content, slide_count, reply)
        built == create_ppt_from_template(r.value.items, template)
        idle == [cache |-> cache, call |-> NoCall, page |-> BlankPptScreen]
        called == [cache |-> r.cache, call |-> CallOf("fetch_ppt_content", key, r, reply),
                   page |-> [BlankPptScreen EXCEPT !.error = r.error]]
    IN  IF file.ext = "none" \/ template.kind = "none" \/ ~Truthy(text_content)
        THEN idle
        ELSE IF r.raised THEN [called EXCEPT !.page.fault = "ServiceError"]
        ELSE IF ~TruthyList(r.value) THEN called
        ELSE IF built.raised THEN [called EXCEPT !.page.error = "create"]
        ELSE [called EXCEPT !.page.download = TRUE, !.page.deck = built.deck]

\* ------------------------------------------------------------------ state

VARIABLES
    process,            \* the script this Python process runs
    \* the quiz tool
    session_state,      \* st.session_state of pqs_app.py
    uploaded_file,      \* the file in the quiz tool's uploader, or NoFile
    level_box,          \* the value of the "Select quiz level" selectbox
    screen,             \* what the last run of the quiz script displayed
    \* the requesters
    questions_cache,    \* st.cache_data's store for fetch_questions
    ppt_cache,          \* st.cache_data's store for fetch_ppt_content
    last_call,          \* the requester call of the last run (instrumentation)
    requested,          \* keys the model service was invoked with (instrumentation)
    answered,           \* key -> result of the calls that returned (instrumentation)
    \* the slide tool
    ppt_file,           \* the document in the slide tool's uploader, or NoFile
    template_file,      \* the template in the slide tool's uploader, or NoTemplate
    slide_count,        \* the value of the "Number of slides" input
    ppt_screen,         \* what the last run of the slide script displayed
    \* the functions called on their own
    sanitized,          \* sanitize_text: its input and its results
    extracted           \* extract_text_from_file: its input and its results

quizVars == <<session_state, uploaded_file, level_box, screen>>
cacheVars == <<questions_cache, ppt_cache, last_call, requested, answered>>
pptVars == <<ppt_file, template_file, slide_count, ppt_screen>>
vars == <<process, quizVars, cacheVars, pptVars, sanitized, extracted>>

NoFile == [ext |-> "none", pages |-> <<>>, content |-> <<>>]

EmptyCache == <<>>

\* Nothing has been requested yet.
CachesInit ==
    /\ questions_cache = EmptyCache
    /\ ppt_cache = EmptyCache
    /\ last_call = NoCall
    /\ requested = [questions |-> {}, ppt |-> {}]
    /\ answered = [questions |-> EmptyCache, ppt |-> EmptyCache]

\* The instrumentation after a run's call of fetch_questions.
RecordQuestionsCall(call) ==
    /\ last_call' = call
    /\ requested' = IF call.made /\ call.invoked
                    THEN [requested EXCEPT !.questions = @ \cup {call.key}]
                    ELSE requested
    /\ answered' = IF call.made /\ ~call.raised /\ call.key \notin DOMAIN answered.questions
                   THEN [answered EXCEPT !.questions = (call.key :> call.value) @@ @]
                   ELSE answered

\* ------------------------------------------------------------------ the quiz tool's runs

\* The files put in the quiz tool's uploader: a PDF with no page, a PDF of two
\* pages and a text file (the last two hold the same text, "a").
QuizUploads ==
    {[ext |-> "pdf", pages |-> <<>>, content |-> <<>>],
     [ext |-> "pdf", pages |-> <<<<97, 10>>, None>>, content |-> <<>>],
     [ext |-> "txt", pages |-> <<>>, content |-> <<97>>]}

\* The levels the user is taken to choose among.
LevelsTried == {"easy", "hard"}

\* One run of main() of pqs_app.py, top to bottom: gen and submit say which
\* button was pressed, pick is the radio the user changed (<<>>: none).
QuizRun(file, level, gen, reply, pick, submit) ==
    LET start == RunState(session_state, questions_cache, NoCall, BlankScreen)
        generated == IF gen THEN GenerateClicked(start, file, reply) ELSE start
        stored == StoreLevel(generated, level)
        rendered == Render(stored, pick)
    IN  IF file = NoFile THEN start
        ELSE IF submit THEN SubmitClicked(rendered) ELSE rendered

\* The run's effect on the state.
QuizCommit(run) ==
    /\ session_state' = run.ss
    /\ screen' = run.page
    /\ questions_cache' = run.cache
    /\ RecordQuestionsCall(run.call)
    /\ UNCHANGED <<process, ppt_cache, pptVars, sanitized, extracted>>

NoReply == [kind |-> "raise", haskey |-> FALSE, items |-> <<>>]

\* The user puts a file in the uploader, replaces it or removes it.  A removed
\* file takes the selectbox off the page, which starts at "Easy" again.
Upload(f) ==
    /\ f # uploaded_file
    /\ uploaded_file' = f
    /\ level_box' = IF f = NoFile THEN "easy" ELSE level_box
    /\ QuizCommit(QuizRun(f, level_box', FALSE, NoReply, <<>>, FALSE))

ChangeLevel(level) ==
    /\ uploaded_file # NoFile
    /\ level # level_box
    /\ level_box' = level
    /\ UNCHANGED uploaded_file
    /\ QuizCommit(QuizRun(uploaded_file, level, FALSE, NoReply, <<>>, FALSE))

\* "Generate Quiz"; reply is what the model service does if it is invoked.
Generate(reply) ==
    /\ uploaded_file # NoFile
    /\ UNCHANGED <<uploaded_file, level_box>>
    /\ QuizCommit(QuizRun(uploaded_file, level_box, TRUE, reply, <<>>, FALSE))

\* The user picks option text t of question i among the radios on the page.
Select(i, t) ==
    /\ uploaded_file # NoFile
    /\ i \in 1..Len(screen.questions)
    /\ t \in OptionTexts(screen.questions[i])
    /\ UNCHANGED <<uploaded_file, level_box>>
    /\ QuizCommit(QuizRun(uploaded_file, level_box, FALSE, NoReply, <<i, t>>, FALSE))

\* The user presses the Submit button on the page.
Submit ==
    /\ uploaded_file # NoFile
    /\ screen.questions # <<>>
    /\ UNCHANGED <<uploaded_file, level_box>>
    /\ QuizCommit(QuizRun(uploaded_file, level_box, FALSE, NoReply, <<>>, TRUE))

QuizInit ==
    /\ session_state = InitialSession
    /\ uploaded_file = NoFile
    /\ level_box = "easy"
    /\ screen = BlankScreen

QuizNext ==
    \/ \E f \in QuizUploads \cup {NoFile} : Upload(f)
    \/ \E level \in LevelsTried : ChangeLevel(level)
    \/ \E reply \in QuizReplies : Generate(reply)
    \/ \E i \in 1..MaxQuestions, t \in {OptA, OptB, OptC, OptD} : Select(i, t)
    \/ Submit

\* ------------------------------------------------------------------ the slide tool's runs

\* The documents put in the slide tool's uploader: a text file holding " a"
\* and a line feed, and a PDF with no page.
PptUploads ==
    {[ext |-> "txt", pages |-> <<>>, content |-> <<32, 97, 10>>],
     [ext |-> "pdf", pages |-> <<>>, content |-> <<>>]}

\* The instrumentation after a call of fetch_ppt_content.
RecordPptCall(call) ==
    /\ last_call' = call
    /\ requested' = IF call.made /\ call.invoked
                    THEN [requested EXCEPT !.ppt = @ \cup {call.key}]
                    ELSE requested
    /\ answered' = IF call.made /\ ~call.raised /\ call.key \notin DOMAIN answered.ppt
                   THEN [answered EXCEPT !.ppt = (call.key :> call.value) @@ @]
                   ELSE answered

PptCommit(run) ==
    /\ ppt_screen' = run.page
    /\ ppt_cache' = run.cache
    /\ RecordPptCall(run.call)
    /\ UNCHANGED <<process, questions_cache, quizVars, sanitized, extracted>>

\* A run of main() of generating_ppt.py in which the button was not pressed.
PptIdleRun == [cache |-> ppt_cache, call |-> NoCall, page |-> BlankPptScreen]

PptUpload(f) ==
    /\ f # ppt_file
    /\ ppt_file' = f
    /\ UNCHANGED <<template_file, slide_count>>
    /\ PptCommit(PptIdleRun)

PptTemplate(t) ==
    /\ t # template_file
    /\ template_file' = t
    /\ UNCHANGED <<ppt_file, slide_count>>
    /\ PptCommit(PptIdleRun)

SetSlideCount(n) ==
    /\ n \in MinSlideCount..MaxSlideCount
    /\ n # slide_count
    /\ slide_count' = n
    /\ UNCHANGED <<ppt_file, template_file>>
    /\ PptCommit(PptIdleRun)

\* "Generate Presentation"; reply is what the model service does if invoked.
GeneratePresentation(reply) ==
    /\ UNCHANGED <<ppt_file, template_file, slide_count>>
    /\ PptCommit(PresentationClicked(ppt_cache, ppt_file, template_file, slide_count, reply))

PptInit ==
    /\ ppt_file = NoFile
    /\ template_file = NoTemplate
    /\ slide_count = DefaultSlideCount
    /\ ppt_screen = BlankPptScreen

PptNext ==
    \/ \E f \in PptUploads \cup {NoFile} : PptUpload(f)
    \/ \E t \in Templates \cup {NoTemplate} : PptTemplate(t)
    \/ \E n \in SlideCountsTried : SetSlideCount(n)
    \/ \E reply \in PptReplies : GeneratePresentation(reply)

\* ------------------------------------------------------------------ the functions on their own

\* The characters of the sanitizer's inputs: a control character (line feed),
\* two of the characters strip removes (space, '-') and a letter.
SanitizeAlphabet == {10, 32, 45, 97}

\* Filler lengths: none, and the lengths just below and at the truncation limit.
FillLengths == {0} \cup ((MaxTextLen - FillSpan)..MaxTextLen)

\* Inputs of sanitize_text: a filler run between a short prefix and suffix,
\* so that texts shorter and longer than the limit both occur.
SanitizeInputs ==
    {pre \o Repeat(c, k) \o suf :
        pre \in SeqsUpTo(SanitizeAlphabet, MaxAffix),
        suf \in SeqsUpTo(SanitizeAlphabet, MaxAffix),
        c \in {32, 97}, k \in FillLengths}

SanitizeIdle == sanitized = [text |-> <<>>, once |-> None, twice |-> None]

\* sanitize_text applied to the input.
SanitizeOnce ==
    /\ process = "sanitize_text"
    /\ sanitized.once = None
    /\ sanitized' = [sanitized EXCEPT !.once = sanitize_text(sanitized.text)]
    /\ UNCHANGED <<process, quizVars, cacheVars, pptVars, extracted>>

\* sanitize_text applied to its own result.
SanitizeTwice ==
    /\ process = "sanitize_text"
    /\ sanitized.once # None
    /\ sanitized.twice = None
    /\ sanitized' = [sanitized EXCEPT !.twice = sanitize_text(sanitized.once)]
    /\ UNCHANGED <<process, quizVars, cacheVars, pptVars, extracted>>

SanitizeNext == SanitizeOnce \/ SanitizeTwice

ExtractIdle == extracted = [file |-> NoFile, tool |-> "none", text |-> None, calls |-> <<>>]

\* extract_text_from_file of pqs_app.py called with a progress callback.
ExtractForQuiz ==
    /\ process = "extract_text_from_file"
    /\ extracted.tool = "none"
    /\ extracted' = [extracted EXCEPT !.tool = "pqs_app",
                        !.text = pqs_extract_text_from_file(extracted.file),
                        !.calls = pqs_progress_calls(extracted.file)]
    /\ UNCHANGED <<process, quizVars, cacheVars, pptVars, sanitized>>

\* extract_text_from_file of generating_ppt.py.
ExtractForSlides ==
    /\ process = "extract_text_from_file"
    /\ extracted.tool = "none"
    /\ extracted' = [extracted EXCEPT !.tool = "generating_ppt",
                        !.text = ppt_extract_text_from_file(extracted.file)]
    /\ UNCHANGED <<process, quizVars, cacheVars, pptVars, sanitized>>

ExtractNext == ExtractForQuiz \/ ExtractForSlides

\* ------------------------------------------------------------------ specifications

\* The quiz tool's process.
ToolsIdle == QuizInit /\ CachesInit /\ PptInit

InitQuiz == process = "pqs_app" /\ ToolsIdle /\ SanitizeIdle /\ ExtractIdle

SpecQuiz == InitQuiz /\ [][QuizNext]_vars

\* The slide tool's process.
InitPpt == process = "generating_ppt" /\ ToolsIdle /\ SanitizeIdle /\ ExtractIdle

SpecPpt == InitPpt /\ [][PptNext]_vars

\* Either tool's process: each has its own cache, and the two never meet.
InitTools ==
    process \in {"pqs_app", "generating_ppt"} /\ ToolsIdle /\ SanitizeIdle /\ ExtractIdle

ToolsNext ==
    \/ process = "pqs_app" /\ QuizNext
    \/ process = "generating_ppt" /\ PptNext

SpecTools == InitTools /\ [][ToolsNext]_vars

\* sanitize_text on every input of SanitizeInputs.
InitSanitize ==
    /\ process = "sanitize_text" /\ ToolsIdle /\ ExtractIdle
    /\ sanitized \in [text : SanitizeInputs, once : {None}, twice : {None}]

SpecSanitize == InitSanitize /\ [][SanitizeNext]_vars

\* Both extract_text_from_file functions on every file of Files.
InitExtract ==
    /\ process = "extract_text_from_file" /\ ToolsIdle /\ SanitizeIdle
    /\ extracted \in [file : Files, tool : {"none"}, text : {None}, calls : {<<>>}]

SpecExtract == InitExtract /\ [][ExtractNext]_vars

\* ------------------------------------------------------------------ claims

\* The last run called fetch_questions, or fetch_ppt_content.
QuestionsCall == last_call.made /\ last_call.fn = "fetch_questions"
PptCall == last_call.made /\ last_call.fn = "fetch_ppt_content"

\* C1: fetch_ppt_content returns a slide list only of exactly the requested
\* length; a reply that cannot be parsed or whose slide count differs is
\* reported and answered with None, and a download is offered only for a deck
\* of exactly slide_count slides.
C1_ExactSlideCountOrNothing ==
    /\ \A k \in DOMAIN answered.ppt :
          ~answered.ppt[k].isnone => Len(answered.ppt[k].items) = k.param
    /\ (PptCall /\ last_call.invoked /\ last_call.reply.kind # "raise"
        /\ (last_call.reply.kind # "object" \/ ~last_call.reply.haskey
            \/ last_call.reply.count # last_call.key.param))
       => /\ ~last_call.raised
          /\ last_call.value = NoneList
          /\ ppt_screen.error \in {"parse", "count"}
          /\ ~ppt_screen.download
          /\ ppt_screen.deck = <<>>
    /\ ppt_screen.download
       => /\ PptCall /\ ~last_call.value.isnone
          /\ Len(last_call.value.items) = slide_count
          /\ Len(ppt_screen.deck) = slide_count

\* C1 witness: the model answered with more slides than requested and the
\* batch was rejected with a count error.
C1_Witness ==
    /\ PptCall /\ last_call.invoked
    /\ last_call.reply.kind = "object" /\ last_call.reply.haskey
    /\ last_call.reply.count > last_call.key.param
    /\ ppt_screen.error = "count"
    /\ ~ppt_screen.download

\* The number of slots of the selection array that hold, text for text, what
\* the displayed question maps its correct letter to.
MatchesOnPage ==
    Cardinality({i \in 1..Len(screen.questions) :
        /\ i <= Len(session_state.selected_options)
        /\ HasCorrectKey(screen.questions[i])
        /\ session_state.selected_options[i] = CorrectText(screen.questions[i])})

\* C2: whenever a score is displayed it is the number of selection slots equal
\* to the option text the loaded question maps its correct letter to, out of
\* the number of loaded questions.
C2_ScoreCountsExactMatches ==
    screen.score # None
    => /\ screen.questions # <<>>
       /\ Len(session_state.selected_options) = Len(screen.questions)
       /\ screen.score = <<MatchesOnPage, Len(screen.questions)>>

\* C2 witness: two questions, one answered correctly and one not: 1 out of 2.
C2_Witness ==
    /\ screen.score = <<1, 2>>
    /\ session_state.selected_options[1] = CorrectText(screen.questions[1])
    /\ session_state.selected_options[2] # None
    /\ session_state.selected_options[2] # CorrectText(screen.questions[2])

\* C3: sanitize_text applied to its own result gives that result back.
C3_SanitizeIdempotent ==
    sanitized.twice # None => sanitized.twice = sanitized.once

AnsweredBefore(call) ==
    IF call.fn = "fetch_questions" THEN call.key \in DOMAIN answered.questions
    ELSE call.key \in DOMAIN answered.ppt
EarlierResult(call) ==
    IF call.fn = "fetch_questions" THEN answered.questions[call.key]
    ELSE answered.ppt[call.key]

C5_BadLetterRejected ==
    /\ screen.fault # "KeyError"
    /\ \A i \in 1..Len(session_state.questions.items) :
          HasCorrectKey(session_state.questions.items[i])

LoadedInStep == last_call'.made /\ ~last_call'.raised

\* C7: a displayed score leaves the session not generated and without
\* questions; from a session that is not generated no run displays a question
\* or a score or changes a selection slot unless it is a Generate that loads
\* questions, and the quiz it displays has every slot unset.
C7_SubmitReturnsToNotStarted ==
    /\ [](screen.score # None
          => /\ ~session_state.quiz_generated
             /\ session_state.questions = PresentList(NoneList)
             /\ session_state.processed_text = None)
    /\ [][~session_state.quiz_generated
          => /\ screen'.score = None
             /\ ~LoadedInStep
                => /\ screen'.questions = <<>>
                   /\ ~session_state'.quiz_generated
                   /\ session_state'.selected_options = session_state.selected_options
             /\ LoadedInStep
                => \A i \in 1..Len(session_state'.selected_options) :
                      session_state'.selected_options[i] = None]_vars

\* C7 witness: a score is on the page after a quiz with a selection made.
C7_Witness ==
    /\ screen.score # None
    /\ ~session_state.quiz_generated
    /\ \E i \in 1..Len(session_state.selected_options) :
          session_state.selected_options[i] # None

C9_ProgressReachesOne ==
    (extracted.tool = "pqs_app" /\ extracted.file.ext = "pdf")
    => /\ Len(extracted.calls) = Len(extracted.file.pages)
       /\ \A i \in 1..Len(extracted.calls) :
             extracted.calls[i] = Progress(i, Len(extracted.file.pages))
       /\ \A i \in 1..(Len(extracted.calls) - 1) :
             ProgressLess(extracted.calls[i], extracted.calls[i + 1])
       /\ extracted.calls # <<>>
       /\ ProgressComplete(extracted.calls[Len(extracted.calls)])

\* C10: the text either tool extracts from a .pdf, .txt or .md file has no
\* leading or trailing whitespace.
C10_ExtractedTextIsStripped ==
    (extracted.tool # "none" /\ ~UnsupportedFormat(extracted.file))
    => extracted.text = Strip(extracted.text, Whitespace)

====
